---------------------------- MODULE Spec2Model ----------------------------
(***************************************************************************)
(* A model of the x86-64 to WebAssembly translation prototype:             *)
(*   - X64ToWasmTranspiler (src/src/transpiler_real.rs): symbol lookup,    *)
(*     disassembly, CFG construction, register allocation, translation     *)
(*     and module generation;                                              *)
(*   - SimpleTranspiler / WasmTranslator (src/src/minimal_transpile.rs);   *)
(*   - Transpiler (src/src/transpiler.rs): the cache of modules served by  *)
(*     get_wasm (src/src/main.rs).                                         *)
(* The instruction decoder (iced_x86) and the module encoder               *)
(* (wasm_encoder) are libraries: an encoded instruction is a token byte    *)
(* followed by len-1 continuation bytes, and a module is the record of     *)
(* the sections handed to the encoder.                                     *)
(***************************************************************************)
EXTENDS Integers, Sequences, FiniteSets, TLC

\* ------------------------------------------------------------------ bounds
\* Longest instruction sequence enumerated exhaustively.
MaxInstrs == 3
\* Most allocator calls of one allocator history.
MaxCalls == 4
\* Most get_wasm requests served after the cache is built.
MaxRequests == 3
\* Runs of transpile_function on the same transpiler object.
MaxRuns == 2
\* Longest list of names analyze_binary goes through.
MaxCallbacks == 3
\* Instructions followed along the native control path of a function.
MaxSteps == 8
\* Requests the server is sent.
MaxClients == 3

\* Calls of transpile_function started on the transpiler.
VARIABLE runs

\* Load address of the translated function.
EntryAddr == 4096

\* ------------------------------------------------------- x86 instructions
\* iced_x86::Register values used by the model.  EAX/RAX and EDI/RDI are
\* different values of the enum although they name the same machine register.
NoReg == "None"
Registers == {"RAX", "EAX", "RDI", "EDI", "RCX", "RBP"}

\* A decoded iced_x86::Instruction: mnemonic, operand kinds and registers,
\* immediate, memory base and displacement, encoded length and, for a
\* relative branch, its displacement from the next instruction.
Ins(mn, k0, k1, r0, r1, imm, base, disp, len, rel) ==
    [mn |-> mn, op0k |-> k0, op1k |-> k1, op0r |-> r0, op1r |-> r1,
     imm |-> imm, base |-> base, disp |-> disp, len |-> len, rel |-> rel]

MovEaxEdi   == Ins("Mov", "Register", "Register", "EAX", "EDI", 0, NoReg, 0, 2, 0)
MovEaxImm0  == Ins("Mov", "Register", "Immediate32", "EAX", NoReg, 0, NoReg, 0, 5, 0)
MovEaxImm1  == Ins("Mov", "Register", "Immediate32", "EAX", NoReg, 1, NoReg, 0, 5, 0)
MovRaxImm1  == Ins("Mov", "Register", "Immediate32to64", "RAX", NoReg, 1, NoReg, 0, 7, 0)
MovRaxMem   == Ins("Mov", "Register", "Memory", "RAX", NoReg, 0, "RDI", 8, 4, 0)
MovMemRax   == Ins("Mov", "Memory", "Register", NoReg, "RAX", 0, "RDI", 8, 4, 0)
AddEaxImm8  == Ins("Add", "Register", "Immediate8to32", "EAX", NoReg, 1, NoReg, 0, 3, 0)
AddEaxImm32 == Ins("Add", "Register", "Immediate32", "EAX", NoReg, 1, NoReg, 0, 5, 0)
AddRaxRdi   == Ins("Add", "Register", "Register", "RAX", "RDI", 0, NoReg, 0, 3, 0)
SubRaxRcx   == Ins("Sub", "Register", "Register", "RAX", "RCX", 0, NoReg, 0, 3, 0)
SubEaxImm32 == Ins("Sub", "Register", "Immediate32", "EAX", NoReg, 1, NoReg, 0, 5, 0)
ImulRaxRdi  == Ins("Imul", "Register", "Register", "RAX", "RDI", 0, NoReg, 0, 4, 0)
CmpEdiImm8  == Ins("Cmp", "Register", "Immediate8to32", "EDI", NoReg, 0, NoReg, 0, 3, 0)
CmpEdiImm32 == Ins("Cmp", "Register", "Immediate32", "EDI", NoReg, 0, NoReg, 0, 6, 0)
CmpRdiRax   == Ins("Cmp", "Register", "Register", "RDI", "RAX", 0, NoReg, 0, 3, 0)
TestEdiEdi  == Ins("Test", "Register", "Register", "EDI", "EDI", 0, NoReg, 0, 2, 0)
LeaEaxRdi1  == Ins("Lea", "Register", "Memory", "EAX", NoReg, 0, "RDI", 1, 3, 0)
XorEaxEax   == Ins("Xor", "Register", "Register", "EAX", "EAX", 0, NoReg, 0, 2, 0)
PushRbp     == Ins("Push", "Register", "None", "RBP", NoReg, 0, NoReg, 0, 1, 0)
PopRbp      == Ins("Pop", "Register", "None", "RBP", NoReg, 0, NoReg, 0, 1, 0)
Ret         == Ins("Ret", "None", "None", NoReg, NoReg, 0, NoReg, 0, 1, 0)
CallRel     == Ins("Call", "NearBranch64", "None", NoReg, NoReg, 0, NoReg, 0, 5, 16)
Jg(rel)     == Ins("Jg", "NearBranch64", "None", NoReg, NoReg, 0, NoReg, 0, 2, rel)
Js(rel)     == Ins("Js", "NearBranch64", "None", NoReg, NoReg, 0, NoReg, 0, 2, rel)
Jmp(rel)    == Ins("Jmp", "NearBranch64", "None", NoReg, NoReg, 0, NoReg, 0, 2, rel)
JmpRax      == Ins("Jmp", "Register", "None", "RAX", NoReg, 0, NoReg, 0, 2, 0)

\* What Decoder::decode returns where no instruction can be decoded.
InvalidIns(len) ==
    Ins("INVALID", "None", "None", NoReg, NoReg, 0, NoReg, 0, len, 0)

\* The encodings the model's decoder knows: an instruction's first byte is
\* its place in this table, and the bytes after it are continuation bytes,
\* written 0, which start no instruction.
InstrTable ==
    <<MovEaxEdi, MovEaxImm0, MovEaxImm1, MovRaxImm1, MovRaxMem, MovMemRax,
      AddEaxImm8, AddEaxImm32, AddRaxRdi, SubRaxRcx, SubEaxImm32, ImulRaxRdi,
      CmpEdiImm8, CmpEdiImm32, CmpRdiRax, TestEdiEdi, LeaEaxRdi1, XorEaxEax,
      PushRbp, PopRbp, Ret, CallRel, JmpRax,
      Jg(2), Jg(6), Js(1), Jmp(2), Jmp(-4)>>

FirstByte(i) == CHOOSE k \in 1..Len(InstrTable) : InstrTable[k] = i

\* The bytes of one instruction and of an instruction sequence.
EncodeIns(i) == <<FirstByte(i)>> \o [k \in 1..(i.len - 1) |-> 0]

RECURSIVE Encode(_)
Encode(prog) ==
    IF prog = <<>> THEN <<>> ELSE EncodeIns(Head(prog)) \o Encode(Tail(prog))

\* The instructions enumerated exhaustively, and the longer functions.
Alphabet ==
    {MovEaxEdi, AddEaxImm8, CmpEdiImm8, LeaEaxRdi1, XorEaxEax, PushRbp,
     Ret, CallRel, Jg(2), Jmp(2), Jmp(-4)}

RECURSIVE SeqsUpTo(_, _)
SeqsUpTo(S, n) ==
    IF n = 0 THEN {<<>>}
    ELSE LET shorter == SeqsUpTo(S, n - 1)
         IN  shorter \cup {Append(s, x) : s \in shorter, x \in S}

\* "destination = parameter + 1; return destination", in its two encodings.
ScenarioA1 == <<MovEaxEdi, AddEaxImm8, Ret>>
ScenarioA2 == <<LeaEaxRdi1, Ret>>
\* "compare parameter to 0; return 1 if greater else 0".
ScenarioB == <<CmpEdiImm8, Jg(6), MovEaxImm0, Ret, MovEaxImm1, Ret>>

Scenarios ==
    {ScenarioA1, ScenarioA2, ScenarioB,
     <<MovEaxEdi, AddEaxImm32, Ret>>,
     <<PushRbp, MovEaxEdi, AddEaxImm32, PopRbp, Ret>>,
     <<MovRaxMem, AddRaxRdi, MovMemRax, Ret>>,
     <<MovRaxImm1, SubRaxRcx, ImulRaxRdi, Ret>>,
     <<CmpEdiImm32, CmpRdiRax, TestEdiEdi, Js(1), Ret, Ret>>,
     <<MovEaxImm1, SubEaxImm32, JmpRax>>}

\* Functions made of comparisons alone.
ComparisonPrograms ==
    {<<CmpEdiImm32, CmpRdiRax>>, <<CmpRdiRax, TestEdiEdi>>,
     <<TestEdiEdi, CmpEdiImm32>>, <<CmpEdiImm32, CmpEdiImm8>>}

\* Functions whose object file is also laid out in other ways, and
\* functions whose bytes are also cut short or preceded by a stray byte.
LayoutPrograms == {<<MovEaxEdi, AddEaxImm32, Ret>>, <<Ret>>}
CutPrograms == {<<Ret, MovEaxImm1>>, <<MovEaxEdi, AddEaxImm32>>}

Programs ==
    SeqsUpTo(Alphabet, MaxInstrs) \cup Scenarios \cup LayoutPrograms
        \cup CutPrograms \cup ComparisonPrograms


\* --------------------------------------------------- WebAssembly operations
LocalGet(n) == [op |-> "LocalGet", arg |-> n]
LocalSet(n) == [op |-> "LocalSet", arg |-> n]
I64Const(v) == [op |-> "I64Const", arg |-> v]
I64Load(offset) == [op |-> "I64Load", arg |-> offset]
I64Store(offset) == [op |-> "I64Store", arg |-> offset]
I64Add == [op |-> "I64Add", arg |-> 0]
I64Sub == [op |-> "I64Sub", arg |-> 0]
I64Mul == [op |-> "I64Mul", arg |-> 0]
I64And == [op |-> "I64And", arg |-> 0]
Return == [op |-> "Return", arg |-> 0]
End == [op |-> "End", arg |-> 0]

\* Option<T>: None is the empty sequence, Some(x) the sequence <<x>>.
None == <<>>
Some(x) == <<x>>

\* ------------------------------------- RegisterAllocator (transpiler_real)
NewAllocator == [reg_map |-> <<>>, next_local |-> 0, flag_reg |-> None]

\* get_or_allocate: the slot returned and the allocator afterwards.
GetOrAllocate(a, reg) ==
    IF reg \in DOMAIN a.reg_map
    THEN [slot |-> a.reg_map[reg], alloc |-> a]
    ELSE [slot |-> a.next_local,
          alloc |-> [a EXCEPT !.reg_map = (reg :> a.next_local) @@ @,
                              !.next_local = @ + 1]]

\* get_or_allocate_flag without `self.next_local += 1`.
GetOrAllocateFlagNoBump(a) ==
    IF a.flag_reg # None
    THEN [slot |-> a.flag_reg[1], alloc |-> a]
    ELSE [slot |-> a.next_local,
          alloc |-> [a EXCEPT !.flag_reg = Some(a.next_local)]]

GetOrAllocateFlag(a) ==
    IF a.flag_reg # None
    THEN [slot |-> a.flag_reg[1], alloc |-> a]
    ELSE [slot |-> a.next_local,
          alloc |-> [a EXCEPT !.flag_reg = Some(a.next_local),
                              !.next_local = @ + 1]]

\* get_locals_types counting the registers of reg_map alone.
GetLocalsTypesOfRegMap(a) ==
    IF a.reg_map # <<>>
    THEN <<[count |-> Cardinality(DOMAIN a.reg_map), type |-> "I64"]>>
    ELSE <<>>

\* get_locals_types: the (count, type) groups of declared locals.
GetLocalsTypes(a) ==
    IF a.next_local > 0 THEN <<[count |-> a.next_local, type |-> "I64"]>>
    ELSE <<>>

\* ----------------------- X64ToWasmTranspiler::translate_instruction (real)
\* Each arm yields the operations pushed and the allocator afterwards.
RealMov(instr, a) ==
    CASE instr.op0k = "Register" /\ instr.op1k = "Register" ->
           LET dst == GetOrAllocate(a, instr.op0r)
               src == GetOrAllocate(dst.alloc, instr.op1r)
           IN  [wasm |-> <<LocalGet(src.slot), LocalSet(dst.slot)>>,
                alloc |-> src.alloc]
      [] instr.op0k = "Register" /\ instr.op1k = "Immediate32" ->
           LET dst == GetOrAllocate(a, instr.op0r)
           IN  [wasm |-> <<I64Const(instr.imm), LocalSet(dst.slot)>>,
                alloc |-> dst.alloc]
      [] instr.op0k = "Register" /\ instr.op1k = "Memory" ->
           LET dst == GetOrAllocate(a, instr.op0r)
               base == GetOrAllocate(dst.alloc, instr.base)
           IN  [wasm |-> <<LocalGet(base.slot), I64Load(instr.disp),
                           LocalSet(dst.slot)>>,
                alloc |-> base.alloc]
      [] instr.op0k = "Memory" /\ instr.op1k = "Register" ->
           LET src == GetOrAllocate(a, instr.op1r)
               base == GetOrAllocate(src.alloc, instr.base)
           IN  [wasm |-> <<LocalGet(base.slot), LocalGet(src.slot),
                           I64Store(instr.disp)>>,
                alloc |-> base.alloc]
      [] OTHER -> [wasm |-> <<>>, alloc |-> a]

\* Add and Sub share their shape; arith is I64Add or I64Sub.
RealAddSub(instr, a, arith) ==
    LET dst == GetOrAllocate(a, instr.op0r)
    IN  CASE instr.op1k = "Register" ->
               LET src == GetOrAllocate(dst.alloc, instr.op1r)
               IN  [wasm |-> <<LocalGet(dst.slot), LocalGet(src.slot), arith,
                               LocalSet(dst.slot)>>,
                    alloc |-> src.alloc]
          [] instr.op1k = "Immediate32" ->
               [wasm |-> <<LocalGet(dst.slot), I64Const(instr.imm), arith,
                           LocalSet(dst.slot)>>,
                alloc |-> dst.alloc]
          [] OTHER -> [wasm |-> <<>>, alloc |-> dst.alloc]

RealImul(instr, a) ==
    LET dst == GetOrAllocate(a, instr.op0r)
        src == GetOrAllocate(dst.alloc, instr.op1r)
    IN  [wasm |-> <<LocalGet(dst.slot), LocalGet(src.slot), I64Mul,
                    LocalSet(dst.slot)>>,
         alloc |-> src.alloc]

\* The Cmp | Test arm storing its result where Sub stores it, in the slot
\* of the left operand.
RealCmpTestIntoLeft(instr, a) ==
    LET flag == GetOrAllocateFlag(a)
        op0 == GetOrAllocate(flag.alloc, instr.op0r)
    IN  IF instr.mn = "Cmp"
        THEN CASE instr.op1k = "Register" ->
                    LET op1 == GetOrAllocate(op0.alloc, instr.op1r)
                    IN  [wasm |-> <<LocalGet(op0.slot), LocalGet(op1.slot),
                                    I64Sub, LocalSet(op0.slot)>>,
                         alloc |-> op1.alloc]
               [] instr.op1k = "Immediate32" ->
                    [wasm |-> <<LocalGet(op0.slot), I64Const(instr.imm),
                                I64Sub, LocalSet(op0.slot)>>,
                     alloc |-> op0.alloc]
               [] OTHER ->
                    [wasm |-> <<LocalSet(op0.slot)>>, alloc |-> op0.alloc]
        ELSE LET op1 == GetOrAllocate(op0.alloc, instr.op1r)
             IN  [wasm |-> <<LocalGet(op0.slot), LocalGet(op1.slot), I64And,
                             LocalSet(op0.slot)>>,
                  alloc |-> op1.alloc]

RealCmpTest(instr, a) ==
    LET flag == GetOrAllocateFlag(a)
        op0 == GetOrAllocate(flag.alloc, instr.op0r)
    IN  IF instr.mn = "Cmp"
        THEN CASE instr.op1k = "Register" ->
                    LET op1 == GetOrAllocate(op0.alloc, instr.op1r)
                    IN  [wasm |-> <<LocalGet(op0.slot), LocalGet(op1.slot),
                                    I64Sub, LocalSet(flag.slot)>>,
                         alloc |-> op1.alloc]
               [] instr.op1k = "Immediate32" ->
                    [wasm |-> <<LocalGet(op0.slot), I64Const(instr.imm),
                                I64Sub, LocalSet(flag.slot)>>,
                     alloc |-> op0.alloc]
               [] OTHER ->
                    [wasm |-> <<LocalSet(flag.slot)>>, alloc |-> op0.alloc]
        ELSE LET op1 == GetOrAllocate(op0.alloc, instr.op1r)
             IN  [wasm |-> <<LocalGet(op0.slot), LocalGet(op1.slot), I64And,
                             LocalSet(flag.slot)>>,
                  alloc |-> op1.alloc]

RealRet(instr, a) ==
    LET rax == GetOrAllocate(a, "RAX")
    IN  [wasm |-> <<LocalGet(rax.slot), Return>>, alloc |-> rax.alloc]

\* The conditional jumps the translator names.
NamedJcc == {"Je", "Jne", "Jg", "Jl", "Jge", "Jle", "Ja", "Jb"}

\* The result of translate_instruction: Ok(wasm) in every arm.
TranslateInstruction(instr, a) ==
    CASE instr.mn = "Mov" -> RealMov(instr, a)
      [] instr.mn = "Add" -> RealAddSub(instr, a, I64Add)
      [] instr.mn = "Sub" -> RealAddSub(instr, a, I64Sub)
      [] instr.mn = "Imul" -> RealImul(instr, a)
      [] instr.mn \in {"Cmp", "Test"} -> RealCmpTest(instr, a)
      [] instr.mn \in NamedJcc -> [wasm |-> <<>>, alloc |-> a]
      [] instr.mn = "Jmp" -> [wasm |-> <<>>, alloc |-> a]
      [] instr.mn = "Call" -> [wasm |-> <<>>, alloc |-> a]
      [] instr.mn = "Ret" -> RealRet(instr, a)
      [] instr.mn = "Push" -> [wasm |-> <<>>, alloc |-> a]
      [] instr.mn = "Pop" -> [wasm |-> <<>>, alloc |-> a]
      [] OTHER -> [wasm |-> <<>>, alloc |-> a]

\* --------------------------------- X64ToWasmTranspiler up to the translator
\* Result<T, E>: ok tells which of val and err is meant.
Ok(v) == [ok |-> TRUE, val |-> v, err |-> ""]
Err(e) == [ok |-> FALSE, val |-> <<>>, err |-> e]

\* The index of the first Text symbol called name, from i on, or 0.
RECURSIVE FindSymbol(_, _, _)
FindSymbol(symbols, name, i) ==
    IF i > Len(symbols) THEN 0
    ELSE IF symbols[i].kind = "Text" /\ symbols[i].name = name THEN i
         ELSE FindSymbol(symbols, name, i + 1)

\* The index of the first ".text" section holding [addr, addr + size), or 0.
RECURSIVE FindSection(_, _, _, _)
FindSection(sections, addr, size, i) ==
    IF i > Len(sections) THEN 0
    ELSE IF /\ sections[i].name = ".text"
            /\ addr >= sections[i].address
            /\ addr + size <= sections[i].address + Len(sections[i].data)
         THEN i
         ELSE FindSection(sections, addr, size, i + 1)

\* extract_function_code: the symbol's bytes and address, or an error.
ExtractFunctionCode(bin, name) ==
    LET si == FindSymbol(bin.symbols, name, 1)
    IN  IF si = 0 THEN Err("Function not found")
        ELSE LET addr == bin.symbols[si].address
                 size == bin.symbols[si].size
                 ci == FindSection(bin.sections, addr, size, 1)
             IN  IF ci = 0
                 THEN Err("Function code not found in .text section")
                 ELSE LET offset == addr - bin.sections[ci].address
                      IN  Ok([code |-> SubSeq(bin.sections[ci].data,
                                              offset + 1, offset + size),
                              addr |-> addr])

\* Decoder::decode at byte pos (1-based): the instruction encoded there, or
\* an INVALID instruction when the byte starts none or the bytes run out.
DecodeAt(code, pos) ==
    IF code[pos] \notin 1..Len(InstrTable) THEN InvalidIns(1)
    ELSE LET instr == InstrTable[code[pos]]
         IN  IF pos + instr.len - 1 > Len(code)
             THEN InvalidIns(Len(code) - pos + 1)
             ELSE instr

\* disassemble: decode while can_decode(), pushing every instruction.
RECURSIVE DisassembleFrom(_, _, _)
DisassembleFrom(code, pos, rip) ==
    IF pos > Len(code) THEN <<>>
    ELSE LET instr == DecodeAt(code, pos)
         IN  <<[addr |-> rip + pos - 1, instr |-> instr]>>
             \o DisassembleFrom(code, pos + instr.len, rip)

Disassemble(code, rip) == Ok(DisassembleFrom(code, 1, rip))

\* Instruction::is_jmp_short_or_near and near_branch_target.
IsJmpShortOrNear(instr) == instr.mn = "Jmp" /\ instr.op0k = "NearBranch64"

NearBranchTarget(info) ==
    IF info.instr.op0k = "NearBranch64"
    THEN info.addr + info.instr.len + info.instr.rel
    ELSE 0

\* The mnemonics from_instructions treats as control transfers.
CfgTransfers == NamedJcc \cup {"Jmp", "Call", "Ret"}

\* from_instructions, first loop: the leader addresses.
Leaders(instructions, entry) ==
    {entry}
    \cup {NearBranchTarget(instructions[i]) : i \in
            {j \in 1..Len(instructions) :
                /\ instructions[j].instr.mn \in CfgTransfers
                /\ IsJmpShortOrNear(instructions[j].instr)}}
    \cup {instructions[i + 1].addr : i \in
            {j \in 1..Len(instructions) :
                /\ instructions[j].instr.mn \in CfgTransfers
                /\ j + 1 <= Len(instructions)}}

BasicBlock(instructions, start, last, indices) ==
    [start_addr |-> instructions[start + 1].addr,
     end_addr |-> instructions[last + 1].addr,
     instruction_indices |-> indices]

\* from_instructions without its "Add final block" step.
RECURSIVE BuildBlocksNoFinal(_, _, _, _, _, _)
BuildBlocksNoFinal(instructions, leaders, idx, blocks, start, cur) ==
    IF idx >= Len(instructions) THEN blocks
    ELSE IF instructions[idx + 1].addr \in leaders /\ cur # <<>>
         THEN BuildBlocksNoFinal(instructions, leaders, idx + 1,
                                 Append(blocks, BasicBlock(instructions,
                                                           start, idx - 1,
                                                           cur)),
                                 idx, <<idx>>)
         ELSE BuildBlocksNoFinal(instructions, leaders, idx + 1, blocks,
                                 start, Append(cur, idx))

\* from_instructions, second loop from index idx (0-based) on: blocks holds
\* the blocks pushed, start and cur are current_block_start and
\* current_block_indices.
RECURSIVE BuildBlocks(_, _, _, _, _, _)
BuildBlocks(instructions, leaders, idx, blocks, start, cur) ==
    IF idx >= Len(instructions)
    THEN IF cur # <<>>
         THEN Append(blocks, BasicBlock(instructions, start,
                                        Len(instructions) - 1, cur))
         ELSE blocks
    ELSE IF instructions[idx + 1].addr \in leaders /\ cur # <<>>
         THEN BuildBlocks(instructions, leaders, idx + 1,
                          Append(blocks, BasicBlock(instructions, start,
                                                    idx - 1, cur)),
                          idx, <<idx>>)
         ELSE BuildBlocks(instructions, leaders, idx + 1, blocks, start,
                          Append(cur, idx))

Reverse(seq) == [i \in 1..Len(seq) |-> seq[Len(seq) + 1 - i]]

\* from_instructions building its blocks by iterating the leaders HashSet,
\* whose order follows the hasher's seed and so changes from call to call.
FromInstructionsInHashOrder(instructions, entry) ==
    LET blocks == BuildBlocks(instructions, Leaders(instructions, entry),
                              0, <<>>, 0, <<>>)
    IN  [blocks |-> IF runs % 2 = 0 THEN Reverse(blocks) ELSE blocks,
         edges |-> <<>>]

\* ControlFlowGraph::from_instructions; edges is returned as created.
FromInstructions(instructions, entry) ==
    [blocks |-> BuildBlocks(instructions, Leaders(instructions, entry),
                            0, <<>>, 0, <<>>),
     edges |-> <<>>]

StructureControlFlow(cfg) == cfg.blocks

\* translate_block: the instructions of the block's indices, in order.
RECURSIVE TranslateBlock(_, _, _, _)
TranslateBlock(indices, instructions, a, wasm) ==
    IF indices = <<>> THEN [wasm |-> wasm, alloc |-> a]
    ELSE LET t == TranslateInstruction(
                      instructions[Head(indices) + 1].instr, a)
         IN  TranslateBlock(Tail(indices), instructions, t.alloc,
                            wasm \o t.wasm)

RECURSIVE TranslateBlocks(_, _, _, _)
TranslateBlocks(blocks, instructions, a, wasm) ==
    IF blocks = <<>> THEN [wasm |-> wasm, alloc |-> a]
    ELSE LET t == TranslateBlock(Head(blocks).instruction_indices,
                                 instructions, a, <<>>)
         IN  TranslateBlocks(Tail(blocks), instructions, t.alloc,
                             wasm \o t.wasm)

\* translate_to_wasm: Ok(wasm), with the allocator it leaves.
TranslateToWasm(instructions, cfg, a) ==
    Ok(TranslateBlocks(StructureControlFlow(cfg), instructions, a, <<>>))

\* generate_wasm_module: the sections given to the encoder.
GenerateWasmModule(body, a) ==
    [params |-> <<>>, results |-> <<"I64">>,
     memory |-> None,
     exports |-> <<[name |-> "callback", kind |-> "Func", index |-> 0]>>,
     locals |-> GetLocalsTypes(a),
     body |-> Append(body, End)]

\* ------------------------------ WasmTranslator (minimal_transpile.rs)
NewTranslator == [registers |-> <<>>, next_local |-> 1]

NumLocals(t) == t.next_local

\* get_or_allocate_register without `self.registers.insert(reg, local)`.
GetOrAllocateRegisterNoInsert(t, reg) ==
    IF reg \in {"RDI", "EDI"} THEN [slot |-> 0, alloc |-> t]
    ELSE IF reg \in DOMAIN t.registers
         THEN [slot |-> t.registers[reg], alloc |-> t]
         ELSE [slot |-> t.next_local,
               alloc |-> [t EXCEPT !.next_local = @ + 1]]

\* get_or_allocate_register: the local returned and the translator afterwards.
GetOrAllocateRegister(t, reg) ==
    IF reg \in {"RDI", "EDI"} THEN [slot |-> 0, alloc |-> t]
    ELSE IF reg \in DOMAIN t.registers
         THEN [slot |-> t.registers[reg], alloc |-> t]
         ELSE [slot |-> t.next_local,
               alloc |-> [t EXCEPT !.registers = (reg :> t.next_local) @@ @,
                                   !.next_local = @ + 1]]

MinLea(instr, t) ==
    LET dst == GetOrAllocateRegister(t, instr.op0r)
        base == GetOrAllocateRegister(dst.alloc, instr.base)
    IN  [wasm |-> <<LocalGet(base.slot), I64Const(instr.disp), I64Add,
                    LocalSet(dst.slot)>>,
         alloc |-> base.alloc]

MinMov(instr, t) ==
    CASE instr.op0k = "Register" /\ instr.op1k = "Register" ->
           LET dst == GetOrAllocateRegister(t, instr.op0r)
               src == GetOrAllocateRegister(dst.alloc, instr.op1r)
           IN  [wasm |-> <<LocalGet(src.slot), LocalSet(dst.slot)>>,
                alloc |-> src.alloc]
      [] instr.op0k = "Register" /\ instr.op1k = "Immediate32" ->
           LET dst == GetOrAllocateRegister(t, instr.op0r)
           IN  [wasm |-> <<I64Const(instr.imm), LocalSet(dst.slot)>>,
                alloc |-> dst.alloc]
      [] instr.op0k = "Register" /\ instr.op1k = "Memory" ->
           LET dst == GetOrAllocateRegister(t, instr.op0r)
               base == GetOrAllocateRegister(dst.alloc, instr.base)
           IN  [wasm |-> <<LocalGet(base.slot), I64Load(instr.disp),
                           LocalSet(dst.slot)>>,
                alloc |-> base.alloc]
      [] OTHER -> [wasm |-> <<>>, alloc |-> t]

MinAddSub(instr, t, arith) ==
    LET dst == GetOrAllocateRegister(t, instr.op0r)
    IN  CASE instr.op1k = "Register" ->
               LET src == GetOrAllocateRegister(dst.alloc, instr.op1r)
               IN  [wasm |-> <<LocalGet(dst.slot), LocalGet(src.slot), arith,
                               LocalSet(dst.slot)>>,
                    alloc |-> src.alloc]
          [] instr.op1k = "Immediate32" ->
               [wasm |-> <<LocalGet(dst.slot), I64Const(instr.imm), arith,
                           LocalSet(dst.slot)>>,
                alloc |-> dst.alloc]
          [] OTHER -> [wasm |-> <<>>, alloc |-> dst.alloc]

MinRet(instr, t) ==
    LET rax == GetOrAllocateRegister(t, "RAX")
    IN  [wasm |-> <<LocalGet(rax.slot), Return>>, alloc |-> rax.alloc]

\* One iteration of the loop of WasmTranslator::translate.
MinTranslateInstruction(instr, t) ==
    CASE instr.mn = "Lea" -> MinLea(instr, t)
      [] instr.mn = "Mov" -> MinMov(instr, t)
      [] instr.mn = "Add" -> MinAddSub(instr, t, I64Add)
      [] instr.mn = "Sub" -> MinAddSub(instr, t, I64Sub)
      [] instr.mn = "Ret" -> MinRet(instr, t)
      [] OTHER -> [wasm |-> <<>>, alloc |-> t]

RECURSIVE MinTranslateFrom(_, _, _)
MinTranslateFrom(instructions, t, wasm) ==
    IF instructions = <<>> THEN [wasm |-> wasm, alloc |-> t]
    ELSE LET r == MinTranslateInstruction(Head(instructions).instr, t)
         IN  MinTranslateFrom(Tail(instructions), r.alloc, wasm \o r.wasm)

\* WasmTranslator::translate: Ok(wasm), with the translator it leaves.
MinTranslate(instructions, t) == Ok(MinTranslateFrom(instructions, t, <<>>))

\* SimpleTranspiler::generate_module.
GenerateModule(body, num_locals) ==
    [params |-> <<"I64">>, results |-> <<"I64">>,
     memory |-> Some([minimum |-> 1, maximum |-> 1]),
     exports |-> <<[name |-> "callback", kind |-> "Func", index |-> 0],
                   [name |-> "memory", kind |-> "Memory", index |-> 0]>>,
     locals |-> <<[count |-> num_locals, type |-> "I64"]>>,
     body |-> Append(body, End)]

\* ------------------------------------------------ the module as a program
\* The number of local slots of a module: parameters, then declared locals.
RECURSIVE SumCounts(_)
SumCounts(groups) ==
    IF groups = <<>> THEN 0 ELSE Head(groups).count + SumCounts(Tail(groups))

NumSlots(m) == Len(m.params) + SumCounts(m.locals)

\* How many values an operation pops and pushes.
Pops(o) ==
    CASE o.op \in {"LocalSet", "I64Load", "Return"} -> 1
      [] o.op \in {"I64Add", "I64Sub", "I64Mul", "I64And", "I64Store"} -> 2
      [] OTHER -> 0

Pushes(o) ==
    CASE o.op \in {"LocalGet", "I64Const", "I64Load", "I64Add", "I64Sub",
                   "I64Mul", "I64And"} -> 1
      [] OTHER -> 0

\* Stack validation of a body from position i with h values on the stack;
\* dead is TRUE after a Return, where the operations are never executed.
\* A Return and the final End need exactly one value, the result.
RECURSIVE StackValidFrom(_, _, _, _)
StackValidFrom(body, i, h, dead) ==
    IF i > Len(body) THEN FALSE
    ELSE LET o == body[i]
         IN  IF o.op = "End" THEN i = Len(body) /\ (dead \/ h = 1)
             ELSE IF dead THEN StackValidFrom(body, i + 1, 0, TRUE)
             ELSE IF o.op = "Return"
                  THEN h = 1 /\ StackValidFrom(body, i + 1, 0, TRUE)
                  ELSE /\ h >= Pops(o)
                       /\ StackValidFrom(body, i + 1,
                                         h - Pops(o) + Pushes(o), FALSE)

StackValid(body) == StackValidFrom(body, 1, 0, FALSE)

\* Linear memory of one page; a cell never written reads 0.
PageSize == 65536
MemRead(mem, a) == IF a \in DOMAIN mem THEN mem[a] ELSE 0

\* Bitwise AND of two's complement integers.
RECURSIVE BitAnd(_, _)
BitAnd(a, b) ==
    IF a = 0 \/ b = 0 THEN 0
    ELSE IF a = -1 THEN b
    ELSE IF b = -1 THEN a
    ELSE (a % 2) * (b % 2) + 2 * BitAnd(a \div 2, b \div 2)

\* Execution of a body as a stack machine from position i: the value
\* returned, a trap, or "invalid" where an operation finds too few values
\* or no such slot.
Outcome(kind, v) == [kind |-> kind, value |-> v]

RECURSIVE ExecFrom(_, _, _, _, _)
ExecFrom(body, i, stack, locals, mem) ==
    IF i > Len(body) THEN Outcome("invalid", 0)
    ELSE
    LET o == body[i]
        n == Len(stack)
        top == stack[n]
        below == stack[n - 1]
        rest1 == SubSeq(stack, 1, n - 1)
        rest2 == SubSeq(stack, 1, n - 2)
        Bin(v) == ExecFrom(body, i + 1, Append(rest2, v), locals, mem)
    IN  IF n < Pops(o) THEN Outcome("invalid", 0)
        ELSE CASE o.op = "LocalGet" ->
                    IF o.arg \in DOMAIN locals
                    THEN ExecFrom(body, i + 1, Append(stack, locals[o.arg]),
                                  locals, mem)
                    ELSE Outcome("invalid", 0)
               [] o.op = "LocalSet" ->
                    IF o.arg \in DOMAIN locals
                    THEN ExecFrom(body, i + 1, rest1,
                                  [locals EXCEPT ![o.arg] = top], mem)
                    ELSE Outcome("invalid", 0)
               [] o.op = "I64Const" ->
                    ExecFrom(body, i + 1, Append(stack, o.arg), locals, mem)
               [] o.op = "I64Add" -> Bin(below + top)
               [] o.op = "I64Sub" -> Bin(below - top)
               [] o.op = "I64Mul" -> Bin(below * top)
               [] o.op = "I64And" -> Bin(BitAnd(below, top))
               [] o.op = "I64Load" ->
                    IF top + o.arg < 0 \/ top + o.arg + 8 > PageSize
                    THEN Outcome("trap", 0)
                    ELSE ExecFrom(body, i + 1,
                                  Append(rest1, MemRead(mem, top + o.arg)),
                                  locals, mem)
               [] o.op = "I64Store" ->
                    IF below + o.arg < 0 \/ below + o.arg + 8 > PageSize
                    THEN Outcome("trap", 0)
                    ELSE ExecFrom(body, i + 1, rest2, locals,
                                  ((below + o.arg) :> top) @@ mem)
               [] o.op = "Return" -> Outcome("return", top)
               [] o.op = "End" ->
                    IF n >= 1 THEN Outcome("return", top)
                    ELSE Outcome("invalid", 0)
               [] OTHER -> Outcome("invalid", 0)

\* The exported function called with one argument: the argument is in
\* slot 0 and every other slot starts at 0.
Invoke(m, param) ==
    ExecFrom(m.body, 1, <<>>,
             [s \in 0..(NumSlots(m) - 1) |-> IF s = 0 THEN param ELSE 0],
             <<>>)

\* ----------------------------------------------- Transpiler (transpiler.rs)
I32Const(v) == [op |-> "I32Const", arg |-> v]
I32Add == [op |-> "I32Add", arg |-> 0]
I32Sub == [op |-> "I32Sub", arg |-> 0]

\* The module every generate_*_wasm builds, but for its export and code.
FixedModule(export, code) ==
    [params |-> <<"I32">>, results |-> <<"I32">>,
     memory |-> None,
     exports |-> <<[name |-> export, kind |-> "Func", index |-> 0]>>,
     locals |-> <<>>,
     body |-> code]

GenerateIncrementWasm ==
    FixedModule("increment", <<LocalGet(0), I32Const(1), I32Add, End>>)
GenerateDecrementWasm ==
    FixedModule("decrement", <<LocalGet(0), I32Const(1), I32Sub, End>>)
GenerateResetWasm == FixedModule("reset", <<I32Const(0), End>>)

\* Transpiler::transpile_function
TranspileFunction(name) ==
    CASE name = "increment_counter" -> Some(GenerateIncrementWasm)
      [] name = "decrement_counter" -> Some(GenerateDecrementWasm)
      [] name = "reset_counter" -> Some(GenerateResetWasm)
      [] OTHER -> None

\* The callbacks analyze_binary visits, in its order.
Callbacks == <<"increment_counter", "decrement_counter", "reset_counter">>

\* Names get_wasm is asked for: the callbacks and names that are none.
RequestNames ==
    {Callbacks[i] : i \in 1..Len(Callbacks)} \cup {"add_todo", ""}

\* The map without one key.
Without(map, key) == [k \in DOMAIN map \ {key} |-> map[k]]

\* get_wasm_for_function taking the entry out of the map (remove) where the
\* code clones it.
GetWasmForFunctionTaking(cache, name) ==
    [answer |-> IF name \in DOMAIN cache THEN Some(cache[name]) ELSE None,
     cache |-> Without(cache, name)]

\* get_wasm_for_function(&self, fn_name): the Option returned (a clone of
\* the entry) and the cache afterwards.
GetWasmForFunction(cache, name) ==
    [answer |-> IF name \in DOMAIN cache THEN Some(cache[name]) ELSE None,
     cache |-> cache]

\* The body of the loop of analyze_binary with `else { wasm_cache.clear() }`
\* after its `if let`.
AnalyzeOneClearing(cache, callback) ==
    LET wasm == TranspileFunction(callback)
    IN  IF wasm # None
        THEN (callback :> wasm[1]) @@ Without(cache, callback)
        ELSE <<>>

\* The body of the loop of analyze_binary: the cache after the callback
\* was translated and, if that gave Some(wasm), inserted.
AnalyzeOne(cache, callback) ==
    LET wasm == TranspileFunction(callback)
    IN  IF wasm # None
        THEN (callback :> wasm[1]) @@ Without(cache, callback)
        ELSE cache

\* ------------------------------------------------------------------ state
VARIABLES
    impl,           \* "real": X64ToWasmTranspiler, "minimal": SimpleTranspiler
    binary,         \* binary_data, as the parsed object file
    fn_name,        \* the function asked for
    pc,             \* the step transpile_function / transpile is at
    fcode,          \* (code, entry_addr): the function's bytes and address
    instructions,   \* the decoded InstructionInfo sequence
    cfg,            \* the ControlFlowGraph
    allocator,      \* the RegisterAllocator
    translator,     \* the WasmTranslator
    wasm_body,      \* the translated operations
    result,         \* what transpile_function / transpile returned
    prev_run,       \* what the call before this one produced
    calls,          \* allocator calls made directly, each with its answer
    wasm_cache,     \* Transpiler::wasm_cache
    cache_pc,       \* callbacks analyze_binary has yet to visit
    transpile_calls,\* calls of Transpiler::transpile_function
    responses,      \* get_wasm requests served, each with its answer
    callbacks,      \* the names analyze_binary goes through
    counter,        \* State::counter behind the server's mutex
    guard,          \* the request holding the MutexGuard, 0 when none
    req,            \* each request: its handler, its position, its answer
    lock_log        \* the requests' names in the order they took the lock

pipeline_vars ==
    <<impl, binary, fn_name, pc, fcode, instructions, cfg, allocator,
      translator, wasm_body, result, runs, prev_run>>
cache_vars == <<wasm_cache, cache_pc, transpile_calls, responses, callbacks>>
server_vars == <<counter, guard, req, lock_log>>
vars == <<pipeline_vars, calls, cache_vars, server_vars>>

\* An object file holding one function "f" of the given instructions in a
\* ".text" section loaded at EntryAddr.
ObjectFile(prog) ==
    [symbols |-> <<[name |-> "f", kind |-> "Text", address |-> EntryAddr,
                    size |-> Len(Encode(prog))]>>,
     sections |-> <<[name |-> ".text", address |-> EntryAddr,
                     data |-> Encode(prog)]>>]

\* An object file holding the bytes of "f" alone in a ".text" section.
ObjectFileOf(bytes) ==
    [symbols |-> <<[name |-> "f", kind |-> "Text", address |-> EntryAddr,
                    size |-> Len(bytes)]>>,
     sections |-> <<[name |-> ".text", address |-> EntryAddr,
                     data |-> bytes]>>]

\* The function in a section of its own, as -ffunction-sections names it.
ObjectFileOwnSection(bytes) ==
    [symbols |-> <<[name |-> "f", kind |-> "Text", address |-> EntryAddr,
                    size |-> Len(bytes)]>>,
     sections |-> <<[name |-> ".text.f", address |-> EntryAddr,
                     data |-> bytes]>>]

\* The function inside ".text", after a data section and other code, with
\* a data symbol of its name before its own symbol.
ObjectFileInside(bytes) ==
    [symbols |-> <<[name |-> "f", kind |-> "Data", address |-> EntryAddr - 4,
                    size |-> 2],
                   [name |-> "f", kind |-> "Text", address |-> EntryAddr,
                    size |-> Len(bytes)]>>,
     sections |-> <<[name |-> ".rodata", address |-> EntryAddr - 4,
                     data |-> <<0, 0>>],
                    [name |-> ".text", address |-> EntryAddr - 1,
                     data |-> <<FirstByte(Ret)>> \o bytes
                                  \o <<FirstByte(Ret)>>]>>]

\* A symbol whose size runs past the end of its section.
ObjectFileOverrun(bytes) ==
    [symbols |-> <<[name |-> "f", kind |-> "Text", address |-> EntryAddr,
                    size |-> Len(bytes) + 1]>>,
     sections |-> <<[name |-> ".text", address |-> EntryAddr,
                     data |-> bytes]>>]

\* The byte strings a function is given as: its encoding and, for some,
\* the encoding without its last byte or after a byte that starts nothing.
ByteImages(prog) ==
    {Encode(prog)}
    \cup (IF prog \in CutPrograms
          THEN {SubSeq(Encode(prog), 1, Len(Encode(prog)) - 1),
                <<0>> \o Encode(prog)}
          ELSE {})

\* The object files binary_data is read from.
ObjectFiles(prog) ==
    {ObjectFileOf(bytes) : bytes \in ByteImages(prog)}
    \cup (IF prog \in LayoutPrograms
          THEN {ObjectFileOwnSection(Encode(prog)),
                ObjectFileInside(Encode(prog)),
                ObjectFileOverrun(Encode(prog))}
          ELSE {})

\* The names asked for: the function and a name the file does not have.
FnNames == {"f", "g"}

NoCode == [code |-> <<>>, addr |-> 0]
NoCfg == [blocks |-> <<>>, edges |-> <<>>]
NoResult == Err("(running)")
UnsetAllocator == [reg_map |-> <<>>, next_local |-> 0, flag_reg |-> None]
UnsetTranslator == [registers |-> <<>>, next_local |-> 1]
NoRun ==
    [result |-> NoResult, blocks |-> <<>>, allocator |-> UnsetAllocator,
     translator |-> UnsetTranslator, wasm_body |-> <<>>]

CacheIdle ==
    /\ wasm_cache = <<>>
    /\ cache_pc = <<>>
    /\ transpile_calls = 0
    /\ responses = <<>>
    /\ callbacks = <<>>

Clients == 1..MaxClients
NoRequest == [kind |-> "", at |-> "idle", seen |-> 0, status |-> 0]

\* main(): Arc::new(Mutex::new(State { counter: 0 })), nothing served yet.
ServerIdle ==
    /\ counter = 0
    /\ guard = 0
    /\ req = [r \in Clients |-> NoRequest]
    /\ lock_log = <<>>

PipelineInit ==
    /\ impl \in {"real", "minimal"}
    /\ \E prog \in Programs :
          IF impl = "real"
          THEN binary \in ObjectFiles(prog) /\ fcode = NoCode
          ELSE \E bytes \in ByteImages(prog) :
                  /\ binary = ObjectFileOf(bytes)
                  /\ fcode = [code |-> bytes, addr |-> EntryAddr]
    /\ fn_name \in (IF impl = "real" THEN FnNames ELSE {"f"})
    /\ pc = "start"
    /\ instructions = <<>>
    /\ cfg = NoCfg
    /\ allocator = UnsetAllocator
    /\ translator = UnsetTranslator
    /\ wasm_body = <<>>
    /\ result = NoResult
    /\ runs = 1
    /\ prev_run = NoRun

Init ==
    /\ PipelineInit
    /\ calls = <<>>
    /\ CacheIdle
    /\ ServerIdle

\* ------------------------------------- X64ToWasmTranspiler::transpile_function
\* Step 1: extract_function_code(fn_name)?
ExtractStep ==
    /\ impl = "real" /\ pc = "start"
    /\ LET r == ExtractFunctionCode(binary, fn_name)
       IN  IF r.ok
           THEN /\ fcode' = r.val
                /\ pc' = "extracted"
                /\ UNCHANGED result
           ELSE /\ result' = Err(r.err)
                /\ pc' = "done"
                /\ UNCHANGED fcode
    /\ UNCHANGED <<impl, binary, fn_name, instructions, cfg, allocator,
                   translator, wasm_body, runs, prev_run, calls,
                   cache_vars, server_vars>>

\* Step 2: disassemble(code, entry_addr)?
DisassembleStep ==
    /\ impl = "real" /\ pc = "extracted"
    /\ LET r == Disassemble(fcode.code, fcode.addr)
       IN  IF r.ok
           THEN /\ instructions' = r.val
                /\ pc' = "disassembled"
                /\ UNCHANGED result
           ELSE /\ result' = Err(r.err)
                /\ pc' = "done"
                /\ UNCHANGED instructions
    /\ UNCHANGED <<impl, binary, fn_name, fcode, cfg, allocator, translator,
                   wasm_body, runs, prev_run, calls, cache_vars, server_vars>>

\* Steps 3 and 4: ControlFlowGraph::from_instructions, RegisterAllocator::new
CfgStep ==
    /\ impl = "real" /\ pc = "disassembled"
    /\ cfg' = FromInstructions(instructions, fcode.addr)
    /\ allocator' = NewAllocator
    /\ pc' = "cfg"
    /\ UNCHANGED <<impl, binary, fn_name, fcode, instructions, translator,
                   wasm_body, result, runs, prev_run, calls, cache_vars, server_vars>>

\* Step 5: translate_to_wasm(&instructions, &cfg, &mut allocator)?
TranslateStep ==
    /\ impl = "real" /\ pc = "cfg"
    /\ LET r == TranslateToWasm(instructions, cfg, allocator)
       IN  IF r.ok
           THEN /\ wasm_body' = r.val.wasm
                /\ allocator' = r.val.alloc
                /\ pc' = "translated"
                /\ UNCHANGED result
           ELSE /\ result' = Err(r.err)
                /\ pc' = "done"
                /\ UNCHANGED <<wasm_body, allocator>>
    /\ UNCHANGED <<impl, binary, fn_name, fcode, instructions, cfg,
                   translator, runs, prev_run, calls, cache_vars, server_vars>>

\* Step 6: Ok(generate_wasm_module(wasm_body, allocator))
GenerateStep ==
    /\ impl = "real" /\ pc = "translated"
    /\ result' = Ok(GenerateWasmModule(wasm_body, allocator))
    /\ pc' = "done"
    /\ UNCHANGED <<impl, binary, fn_name, fcode, instructions, cfg,
                   allocator, translator, wasm_body, runs, prev_run,
                   calls, cache_vars, server_vars>>

\* ------------------------------------------------ SimpleTranspiler::transpile
MinDisassembleStep ==
    /\ impl = "minimal" /\ pc = "start"
    /\ instructions' = DisassembleFrom(fcode.code, 1, fcode.addr)
    /\ pc' = "disassembled"
    /\ UNCHANGED <<impl, binary, fn_name, fcode, cfg, allocator, translator,
                   wasm_body, result, runs, prev_run, calls, cache_vars, server_vars>>

\* WasmTranslator::new() and translator.translate(&instructions)?
MinTranslateStep ==
    /\ impl = "minimal" /\ pc = "disassembled"
    /\ LET r == MinTranslate(instructions, NewTranslator)
       IN  IF r.ok
           THEN /\ wasm_body' = r.val.wasm
                /\ translator' = r.val.alloc
                /\ pc' = "translated"
                /\ UNCHANGED result
           ELSE /\ result' = Err(r.err)
                /\ pc' = "done"
                /\ UNCHANGED <<wasm_body, translator>>
    /\ UNCHANGED <<impl, binary, fn_name, fcode, instructions, cfg,
                   allocator, runs, prev_run, calls, cache_vars, server_vars>>

MinGenerateStep ==
    /\ impl = "minimal" /\ pc = "translated"
    /\ result' = Ok(GenerateModule(wasm_body, NumLocals(translator)))
    /\ pc' = "done"
    /\ UNCHANGED <<impl, binary, fn_name, fcode, instructions, cfg,
                   allocator, translator, wasm_body, runs, prev_run,
                   calls, cache_vars, server_vars>>

Next ==
    \/ ExtractStep
    \/ DisassembleStep
    \/ CfgStep
    \/ TranslateStep
    \/ GenerateStep
    \/ MinDisassembleStep
    \/ MinTranslateStep
    \/ MinGenerateStep

Spec == Init /\ [][Next]_vars

\* --------------------------------------- transpile_function called again
\* What a call leaves behind: its result and what it was built from.
RunOutputs ==
    [result |-> result, blocks |-> cfg.blocks, allocator |-> allocator,
     translator |-> translator, wasm_body |-> wasm_body]

\* The caller calls transpile_function(fn_name) again on the same
\* transpiler: binary_data is as it was, and every local of the call is
\* created anew by the steps.
Rerun ==
    /\ pc = "done" /\ runs < MaxRuns
    /\ prev_run' = RunOutputs
    /\ runs' = runs + 1
    /\ result' = NoResult
    /\ pc' = "start"
    /\ UNCHANGED <<impl, binary, fn_name, fcode, instructions, cfg,
                   allocator, translator, wasm_body, calls, cache_vars, server_vars>>

NextRerun == Next \/ Rerun

RerunSpec == Init /\ [][NextRerun]_vars

\* ------------------------------------------------ the allocators on their own
PipelineIdle ==
    /\ binary = ObjectFile(<<>>)
    /\ fn_name = "f"
    /\ pc = "idle"
    /\ fcode = NoCode
    /\ instructions = <<>>
    /\ cfg = NoCfg
    /\ wasm_body = <<>>
    /\ result = NoResult
    /\ runs = 0
    /\ prev_run = NoRun

\* Every iced_x86::Register value a call may pass, Register::None included.
AllRegs == Registers \cup {NoReg}
FlagName == "(flag)"

AllocInit ==
    /\ impl \in {"real", "minimal"}
    /\ PipelineIdle
    /\ allocator = NewAllocator
    /\ translator = NewTranslator
    /\ calls = <<>>
    /\ CacheIdle
    /\ ServerIdle

\* One call with its answer: the slot returned, next_local before and
\* after the call, and whether it moved.
Call(reg, slot, before, after) ==
    [reg |-> reg, slot |-> slot, allocated |-> after # before,
     before |-> before, after |-> after]

CallGetOrAllocate(reg) ==
    /\ impl = "real" /\ Len(calls) < MaxCalls
    /\ LET r == GetOrAllocate(allocator, reg)
       IN  /\ allocator' = r.alloc
           /\ calls' = Append(calls, Call(reg, r.slot, allocator.next_local,
                                          r.alloc.next_local))
    /\ UNCHANGED <<impl, binary, fn_name, pc, fcode, instructions, cfg,
                   translator, wasm_body, result, runs, prev_run,
                   cache_vars, server_vars>>

CallGetOrAllocateFlag ==
    /\ impl = "real" /\ Len(calls) < MaxCalls
    /\ LET r == GetOrAllocateFlag(allocator)
       IN  /\ allocator' = r.alloc
           /\ calls' = Append(calls, Call(FlagName, r.slot,
                                          allocator.next_local,
                                          r.alloc.next_local))
    /\ UNCHANGED <<impl, binary, fn_name, pc, fcode, instructions, cfg,
                   translator, wasm_body, result, runs, prev_run,
                   cache_vars, server_vars>>

CallGetOrAllocateRegister(reg) ==
    /\ impl = "minimal" /\ Len(calls) < MaxCalls
    /\ LET r == GetOrAllocateRegister(translator, reg)
       IN  /\ translator' = r.alloc
           /\ calls' = Append(calls, Call(reg, r.slot, translator.next_local,
                                          r.alloc.next_local))
    /\ UNCHANGED <<impl, binary, fn_name, pc, fcode, instructions, cfg,
                   allocator, wasm_body, result, runs, prev_run,
                   cache_vars, server_vars>>

AllocNext ==
    \/ \E reg \in AllRegs : CallGetOrAllocate(reg)
    \/ CallGetOrAllocateFlag
    \/ \E reg \in AllRegs : CallGetOrAllocateRegister(reg)

AllocSpec == AllocInit /\ [][AllocNext]_vars

\* ------------------------------------------------ the cache and its requests
\* Transpiler::new(): an empty wasm_cache, then analyze_binary.
CacheInit ==
    /\ impl = "real"
    /\ PipelineIdle
    /\ allocator = UnsetAllocator
    /\ translator = UnsetTranslator
    /\ calls = <<>>
    /\ wasm_cache = <<>>
    /\ callbacks = Callbacks
    /\ cache_pc = callbacks
    /\ transpile_calls = 0
    /\ responses = <<>>
    /\ ServerIdle

\* One iteration of the loop of analyze_binary.
AnalyzeStep ==
    /\ cache_pc # <<>>
    /\ transpile_calls' = transpile_calls + 1
    /\ wasm_cache' = AnalyzeOne(wasm_cache, Head(cache_pc))
    /\ cache_pc' = Tail(cache_pc)
    /\ UNCHANGED <<pipeline_vars, calls, responses, callbacks, server_vars>>

\* get_wasm (main.rs), served once Transpiler::new() has returned: the
\* body answered, with what the request did to the transpiler.
GetWasm(name) ==
    /\ cache_pc = <<>> /\ Len(responses) < MaxRequests
    /\ LET r == GetWasmForFunction(wasm_cache, name)
       IN  /\ wasm_cache' = r.cache
           /\ UNCHANGED transpile_calls
           /\ responses' = Append(responses,
                  [name |-> name,
                   cached |-> name \in DOMAIN wasm_cache,
                   answer |-> r.answer,
                   status |-> IF r.answer # None THEN 200 ELSE 404,
                   transpiled |-> transpile_calls' - transpile_calls,
                   cache_same |-> wasm_cache' = wasm_cache])
    /\ UNCHANGED <<pipeline_vars, calls, cache_pc, callbacks, server_vars>>

CacheNext ==
    \/ AnalyzeStep
    \/ \E name \in RequestNames : GetWasm(name)

CacheSpec == CacheInit /\ [][CacheNext]_vars

\* analyze_binary going through a list of names: the list of the code and
\* lists that also hold a name transpile_function has no arm for, for
\* which it returns None.
CallbackLists == SeqsUpTo(RequestNames \ {""}, MaxCallbacks)

FillInit ==
    /\ impl = "real"
    /\ PipelineIdle
    /\ allocator = UnsetAllocator
    /\ translator = UnsetTranslator
    /\ calls = <<>>
    /\ wasm_cache = <<>>
    /\ callbacks \in CallbackLists
    /\ cache_pc = callbacks
    /\ transpile_calls = 0
    /\ responses = <<>>
    /\ ServerIdle

FillSpec == FillInit /\ [][CacheNext]_vars

\* ------------------------------------------------- the server's handlers
\* The callbacks execute_callback knows, a name it does not, and the page.
CallbackNames == {"increment_counter", "decrement_counter", "reset_counter"}
UnknownName == "add_todo"
IndexPage == "index"
Handlers == CallbackNames \cup {UnknownName, IndexPage}

\* increment_counter, decrement_counter, reset_counter on the value read.
IncrementCounter(c) == c + 1
DecrementCounter(c) == c - 1
ResetCounter(c) == 0

\* The value the matched arm of execute_callback stores.
CallbackStores(name, c) ==
    CASE name = "increment_counter" -> IncrementCounter(c)
      [] name = "decrement_counter" -> DecrementCounter(c)
      [] name = "reset_counter" -> ResetCounter(c)

\* A lock() that returns whether or not the mutex is held.
CanLockAlways(holder) == TRUE

\* ctx.state.lock() returns once nobody holds the guard.
CanLock(holder) == holder = 0

ServerInit ==
    /\ impl = "real"
    /\ PipelineIdle
    /\ allocator = UnsetAllocator
    /\ translator = UnsetTranslator
    /\ calls = <<>>
    /\ CacheIdle
    /\ ServerIdle

\* A request for /execute/{fn_name} or for / reaches its handler.
Arrive(r, name) ==
    /\ req[r].at = "idle"
    /\ req' = [req EXCEPT ![r] = [@ EXCEPT !.kind = name, !.at = "start"]]
    /\ UNCHANGED <<counter, guard, lock_log>>

\* let state = ctx.state.lock().unwrap()
Lock(r) ==
    /\ req[r].at = "start"
    /\ CanLock(guard)
    /\ guard' = r
    /\ lock_log' = Append(lock_log, req[r].kind)
    /\ req' = [req EXCEPT ![r].at = "locked"]
    /\ UNCHANGED counter

\* The `_` arm: NotFound, the guard dropped, nothing read or written.
UnknownCallback(r) ==
    /\ req[r].at = "locked" /\ req[r].kind = UnknownName
    /\ guard' = IF guard = r THEN 0 ELSE guard
    /\ req' = [req EXCEPT ![r] = [@ EXCEPT !.at = "done", !.status = 404]]
    /\ UNCHANGED <<counter, lock_log>>

\* The read of state.counter: by the callback's `+=`, `-=`, or by render_app.
Load(r) ==
    /\ req[r].at = "locked" /\ req[r].kind # UnknownName
    /\ req' = [req EXCEPT ![r] = [@ EXCEPT !.seen = counter, !.at = "loaded"]]
    /\ UNCHANGED <<counter, guard, lock_log>>

\* The write of state.counter by the callback.
Store(r) ==
    /\ req[r].at = "loaded" /\ req[r].kind \in CallbackNames
    /\ counter' = CallbackStores(req[r].kind, req[r].seen)
    /\ req' = [req EXCEPT ![r].at = "stored"]
    /\ UNCHANGED <<guard, lock_log>>

\* The handler returns Ok and its guard is dropped.
Respond(r) ==
    /\ \/ req[r].at = "stored"
       \/ req[r].at = "loaded" /\ req[r].kind = IndexPage
    /\ guard' = IF guard = r THEN 0 ELSE guard
    /\ req' = [req EXCEPT ![r] = [@ EXCEPT !.at = "done", !.status = 200]]
    /\ UNCHANGED <<counter, lock_log>>

ServerNext ==
    /\ \E r \in Clients :
          \/ \E name \in Handlers : Arrive(r, name)
          \/ Lock(r)
          \/ UnknownCallback(r)
          \/ Load(r)
          \/ Store(r)
          \/ Respond(r)
    /\ UNCHANGED <<pipeline_vars, calls, cache_vars>>

ServerSpec == ServerInit /\ [][ServerNext]_vars

\* ----------------------------------------------------------------- claims
\* The instructions of the function in the object file.
\* The bytes of "f": those its first code symbol spans, in whichever
\* section holds them (none: the empty string).
FunctionBytes ==
    LET si == FindSymbol(binary.symbols, "f", 1)
        a == binary.symbols[si].address
        s == binary.symbols[si].size
        holds == {i \in 1..Len(binary.sections) :
                     /\ a >= binary.sections[i].address
                     /\ a + s <= binary.sections[i].address
                                     + Len(binary.sections[i].data)}
    IN  IF si = 0 \/ holds = {} THEN <<>>
        ELSE LET sec == binary.sections[CHOOSE i \in holds : TRUE]
             IN  SubSeq(sec.data, a - sec.address + 1, a - sec.address + s)

Program == DisassembleFrom(FunctionBytes, 1, EntryAddr)
ProgramIs(prog) ==
    binary = ObjectFileOf(Encode(prog)) /\ FunctionBytes = Encode(prog)

\* transpile_function / transpile has returned for the existing function.
Returned == pc = "done" /\ fn_name = "f"

\* Arguments the exported function is called with.
Params == {-1, 0, 1, 41}

\* The mnemonics each translator has an arm for; every other mnemonic
\* reaches the arm that prints "Unsupported instruction".
RealArms ==
    {"Mov", "Add", "Sub", "Imul", "Cmp", "Test", "Jmp", "Call", "Ret",
     "Push", "Pop"} \cup NamedJcc
MinArms == {"Lea", "Mov", "Add", "Sub", "Ret"}
Arms == IF impl = "real" THEN RealArms ELSE MinArms

HasMnemonic(mns) == \E i \in 1..Len(Program) : Program[i].instr.mn \in mns
HasUnsupported == \E i \in 1..Len(Program) : Program[i].instr.mn \notin Arms

\* C1: a function with at least one instruction of an unsupported mnemonic
\* makes translation return an error; no module is returned for it.
C1_UnsupportedIsError == (Returned /\ HasUnsupported) => ~result.ok

\* C2: for "mov eax, edi; add eax, 1; ret" and for "lea eax, [rdi+1]; ret"
\* the module's function, run with the parameter in slot 0, returns the
\* parameter plus one (41 gives 42).
C2_ScenarioAReturnsParamPlusOne ==
    (Returned /\ (ProgramIs(ScenarioA1) \/ ProgramIs(ScenarioA2)))
        => /\ result.ok
           /\ \A p \in Params :
                 Invoke(result.val, p) = Outcome("return", p + 1)

\* C3: for "cmp edi, 0; jg L; mov eax, 0; ret; L: mov eax, 1; ret"
\* translation by X64ToWasmTranspiler fails, or the module's result follows the comparison: 1 for
\* a parameter above 0 and 0 otherwise.
C3_ScenarioBBranchesOrFails ==
    (impl = "real" /\ Returned /\ ProgramIs(ScenarioB))
        => \/ ~result.ok
           \/ \A p \in Params :
                 Invoke(result.val, p)
                     = Outcome("return", IF p > 0 THEN 1 ELSE 0)

\* C4: whenever a module is returned its body is a valid stack program: no
\* operation pops a value that was not pushed, and a return and the final
\* End each find exactly one value, the result.
C4_OkBodyIsStackValid ==
    (Returned /\ result.ok) => StackValid(result.val.body)

\* C5: a function with a push or a pop makes translation by
\* X64ToWasmTranspiler return an error.
C5_PushPopIsError ==
    (impl = "real" /\ Returned /\ HasMnemonic({"Push", "Pop"}))
        => ~result.ok

\* C6: once the cache is built, requests for the same name get equal
\* answers, and a request for a name not in the cache gets None, runs
\* transpile_function no time and leaves the cache as it was.
C6_CacheAnswersAgree ==
    /\ \A i, j \in 1..Len(responses) :
          responses[i].name = responses[j].name
              => responses[i].answer = responses[j].answer
    /\ \A i \in 1..Len(responses) :
          ~responses[i].cached
              => /\ responses[i].answer = None
                 /\ responses[i].transpiled = 0
                 /\ responses[i].cache_same

\* Two requests for a cached name with another request between them, and a
\* request for a name that is not cached.
C6_Witness ==
    /\ \E i, j \in 1..Len(responses) :
          /\ i + 1 < j
          /\ responses[i].name = responses[j].name
          /\ responses[i].answer # None
    /\ \E k \in 1..Len(responses) : ~responses[k].cached

CfgBuilt == impl = "real" /\ pc \in {"cfg", "translated", "done"}

\* C8: the index lists of the basic blocks are pairwise disjoint and their
\* union is 0..N-1 for the N decoded instructions: every index is listed
\* exactly once and nothing else is listed.
C8_BlocksPartitionIndices ==
    CfgBuilt =>
        LET n == Len(instructions)
            blocks == cfg.blocks
        IN  /\ \A b \in 1..Len(blocks) :
                  \A p \in 1..Len(blocks[b].instruction_indices) :
                      blocks[b].instruction_indices[p] \in 0..(n - 1)
            /\ \A k \in 0..(n - 1) :
                  Cardinality(
                      {b \in 1..Len(blocks) :
                          \E p \in 1..Len(blocks[b].instruction_indices) :
                              blocks[b].instruction_indices[p] = k}) = 1
            /\ \A b \in 1..Len(blocks) :
                  \A p, q \in 1..Len(blocks[b].instruction_indices) :
                      blocks[b].instruction_indices[p]
                          = blocks[b].instruction_indices[q] => p = q

\* A function with a jump and a return cut into three blocks or more.
C8_Witness ==
    /\ CfgBuilt /\ pc = "cfg"
    /\ Len(cfg.blocks) >= 3
    /\ \E i \in 1..Len(instructions) : instructions[i].instr.mn = "Jmp"
    /\ \E i \in 1..Len(instructions) : instructions[i].instr.mn = "Ret"

\* The names of the first-integer-argument register.
FirstArgNames == {"RDI", "EDI"}
IsRegCall(c) == c.reg # FlagName

\* A register asked for again gets the slot it got first, and nothing is
\* allocated for it.
AskedAgainSameSlot ==
    \A i, j \in 1..Len(calls) :
        (i < j /\ IsRegCall(calls[i]) /\ calls[i].reg = calls[j].reg)
            => calls[j].slot = calls[i].slot /\ ~calls[j].allocated

\* C9 as claimed: a register asked for again gets its first slot and
\* allocates nothing, and any two distinct registers have distinct slots.
C9_DistinctRegistersDistinctSlots ==
    /\ AskedAgainSameSlot
    /\ \A i, j \in 1..Len(calls) :
          (IsRegCall(calls[i]) /\ IsRegCall(calls[j])
             /\ calls[i].reg # calls[j].reg)
              => calls[i].slot # calls[j].slot

\* C9 as amended: a register asked for again gets its first slot and
\* allocates nothing, and any two distinct registers have distinct slots,
\* but for RDI and EDI in WasmTranslator, which both get local 0.
C9_DistinctSlotsButFirstArgNames ==
    /\ AskedAgainSameSlot
    /\ \A i, j \in 1..Len(calls) :
          (IsRegCall(calls[i]) /\ IsRegCall(calls[j])
             /\ calls[i].reg # calls[j].reg
             /\ ~(impl = "minimal"
                    /\ {calls[i].reg, calls[j].reg} = FirstArgNames))
              => calls[i].slot # calls[j].slot

\* WasmTranslator was asked for RDI, for EDI and twice for another register.
C9_Witness ==
    /\ impl = "minimal"
    /\ \E i, j \in 1..Len(calls) : calls[i].reg = "RDI" /\ calls[j].reg = "EDI"
    /\ \E i, j \in 1..Len(calls) :
          /\ i < j
          /\ calls[i].reg = calls[j].reg
          /\ calls[i].reg \notin FirstArgNames
          /\ calls[i].allocated

\* C10: slot 0 is held by the first-argument register and by nothing else:
\* no other register and no flag is given slot 0, and the first-argument
\* register is given no other slot.
C10_SlotZeroIsFirstArgument ==
    \A i \in 1..Len(calls) :
        calls[i].slot = 0 <=> calls[i].reg \in FirstArgNames

\* ---------------------------------------------------------- the flag slot
IsComparison(instr) == instr.mn \in {"Cmp", "Test"}

\* translate_to_wasm has returned in X64ToWasmTranspiler.
Translated == impl = "real" /\ pc = "translated"

OnlyComparisons ==
    /\ Len(instructions) >= 2
    /\ \A i \in 1..Len(instructions) : IsComparison(instructions[i].instr)

\* Values the slots hold when the comparisons run.
SlotValues ==
    {[s \in 0..(allocator.next_local - 1) |-> k * (s + 2)] : k \in {1, -3}}

\* What a comparison computes from the values of its operands.
ComparisonResult(instr, locals) ==
    LET left == locals[allocator.reg_map[instr.op0r]]
        right == IF instr.op1k = "Register"
                 THEN locals[allocator.reg_map[instr.op1r]]
                 ELSE instr.imm
    IN  IF instr.mn = "Cmp" THEN left - right ELSE BitAnd(left, right)

\* The flag slot is no register's slot.
FlagSlotIsNoRegisterSlot ==
    allocator.flag_reg # None =>
        \A reg \in DOMAIN allocator.reg_map :
            allocator.reg_map[reg] # allocator.flag_reg[1]

\* Every comparison's operations end by setting the one flag slot.
ComparisonsSetFlagSlot ==
    \A i \in 1..Len(instructions) :
        IsComparison(instructions[i].instr) =>
            LET w == TranslateInstruction(instructions[i].instr,
                                          allocator).wasm
            IN  /\ allocator.flag_reg # None
                /\ w # <<>>
                /\ w[Len(w)] = LocalSet(allocator.flag_reg[1])

\* C11: every cmp and test of a function writes the same flag slot, which
\* is no register's slot, and after comparisons run in sequence the flag
\* slot holds the result of the last one: left minus right for cmp, left
\* AND right for test.
C11_FlagHoldsLastComparison ==
    Translated =>
        /\ FlagSlotIsNoRegisterSlot
        /\ ComparisonsSetFlagSlot
        /\ OnlyComparisons =>
              \A locals \in SlotValues :
                  ExecFrom(wasm_body
                               \o <<LocalGet(allocator.flag_reg[1]), Return>>,
                           1, <<>>, locals, <<>>)
                      = Outcome("return",
                                ComparisonResult(
                                    instructions[Len(instructions)].instr,
                                    locals))

\* ------------------------------------------------------------ the module
\* C12: every module produced declares its one function with one 64-bit
\* integer parameter, which is slot 0, and one 64-bit integer result.
C12_SignatureIsI64ToI64 ==
    (Returned /\ result.ok) =>
        /\ result.val.params = <<"I64">>
        /\ result.val.results = <<"I64">>

UsesMemory(body) ==
    \E i \in 1..Len(body) : body[i].op \in {"I64Load", "I64Store"}

\* The module declares a memory of one page and exports it.
HasOnePageMemory(m) ==
    /\ m.memory = Some([minimum |-> 1, maximum |-> 1])
    /\ \E e \in 1..Len(m.exports) : m.exports[e].kind = "Memory"

HasNoMemory(m) ==
    /\ m.memory = None
    /\ \A e \in 1..Len(m.exports) : m.exports[e].kind # "Memory"

\* C13: a module declares and exports a one-page memory exactly when its
\* body has a load or a store.
C13_MemoryIffLoadOrStore ==
    (Returned /\ result.ok) =>
        IF UsesMemory(result.val.body)
        THEN HasOnePageMemory(result.val)
        ELSE HasNoMemory(result.val)

\* ------------------------------------------------------- symbol lookup
\* The first code symbol named fn_name, or 0.
AskedSymbol == FindSymbol(binary.symbols, fn_name, 1)

\* Some section's address range holds all bytes of the symbol asked for.
SomeSectionHoldsSymbol ==
    /\ AskedSymbol # 0
    /\ \E i \in 1..Len(binary.sections) :
          /\ binary.symbols[AskedSymbol].address
                >= binary.sections[i].address
          /\ binary.symbols[AskedSymbol].address
                + binary.symbols[AskedSymbol].size
                <= binary.sections[i].address
                     + Len(binary.sections[i].data)

Extracted == impl = "real" /\ pc # "start"

SectionNotFound == "Function code not found in .text section"

\* C14: for a code symbol of the name asked for, with address a and size
\* s, extract_function_code succeeds whenever some section's range holds
\* [a, a+s), whatever the section's name, and returns the s bytes at a
\* with the address a; it fails for the section only when no section
\* holds the range.
C14_ExtractsFromAnySection ==
    Extracted =>
        /\ SomeSectionHoldsSymbol =>
              fcode = [code |-> FunctionBytes,
                       addr |-> binary.symbols[AskedSymbol].address]
        /\ (pc = "done" /\ result.err = SectionNotFound) =>
              (AskedSymbol # 0 /\ ~SomeSectionHoldsSymbol)

\* ------------------------------------------------------------ decoding
IsInvalid(info) == info.instr.mn = "INVALID"

\* Decoding the function's bytes from their start meets a position where
\* no instruction can be decoded within the bytes that remain.
HasInvalidEncoding == \E i \in 1..Len(Program) : IsInvalid(Program[i])

\* C15: bytes holding a position where no valid instruction can be decoded
\* make disassemble fail and translation stop: the call returns an error,
\* and no instruction sequence with an invalid-instruction entry is handed
\* on to the CFG builder or the translator.
C15_InvalidEncodingIsError ==
    /\ \A i \in 1..Len(instructions) : ~IsInvalid(instructions[i])
    /\ (Returned /\ HasInvalidEncoding) => ~result.ok

\* ------------------------------------------------------ filling the cache
\* The names analyze_binary has been through.
Visited == SubSeq(callbacks, 1, Len(callbacks) - Len(cache_pc))

\* C16: while the cache is filled, a name whose translation failed is not
\* in the cache, and every other name gone through is in it with the
\* bytes its translation gives; a failure takes out, replaces or keeps out
\* no other name's entry.
C16_FailureLeavesOtherEntries ==
    /\ \A i \in 1..Len(Visited) :
          IF TranspileFunction(Visited[i]) = None
          THEN Visited[i] \notin DOMAIN wasm_cache
          ELSE /\ Visited[i] \in DOMAIN wasm_cache
               /\ wasm_cache[Visited[i]] = TranspileFunction(Visited[i])[1]
    /\ \A name \in DOMAIN wasm_cache :
          \E i \in 1..Len(Visited) : Visited[i] = name

\* The fill is over; a name failed after one name and before another, and
\* both of these are in the cache.
C16_Witness ==
    /\ cache_pc = <<>>
    /\ \E i, j, k \in 1..Len(callbacks) :
          /\ i < j /\ j < k
          /\ TranspileFunction(callbacks[j]) = None
          /\ callbacks[i] # callbacks[k]
          /\ {callbacks[i], callbacks[k]} \subseteq DOMAIN wasm_cache

\* ------------------------------------------------------------ the CFG
\* Conditional branches: the eight the code names and the others.
CondJumps == NamedJcc \cup {"Js"}
IsCondJump(instr) == instr.mn \in CondJumps
IsControlTransfer(instr) ==
    IsCondJump(instr) \/ instr.mn \in {"Jmp", "Call", "Ret"}

\* Blocks are numbered from 0 as in `edges: HashMap<usize, Vec<usize>>`.
BlockIndices(b) == cfg.blocks[b + 1].instruction_indices
LastOfBlock(b) == instructions[BlockIndices(b)[Len(BlockIndices(b))] + 1]
Successors(b) == IF b \in DOMAIN cfg.edges THEN cfg.edges[b] ELSE <<>>

\* The blocks starting at an address.
BlocksAt(addr) ==
    {b \in 0..(Len(cfg.blocks) - 1) : cfg.blocks[b + 1].start_addr = addr}

\* C17: in the successor map of the CFG a block ending in a conditional
\* branch has two successors, the next block and the target's block; one
\* ending in an unconditional branch has one, the target's block; one
\* ending in a return has none; any other block has one, the next block.
C17_EdgesFollowBlockEnds ==
    CfgBuilt =>
        \A b \in 0..(Len(cfg.blocks) - 1) :
            LET last == LastOfBlock(b)
                succ == Successors(b)
                targets == BlocksAt(NearBranchTarget(last))
            IN  /\ Len(succ) <= 2
                /\ CASE IsCondJump(last.instr) ->
                           /\ Len(succ) = 2
                           /\ {succ[1], succ[2]} = {b + 1} \cup targets
                      [] last.instr.mn = "Jmp" ->
                           /\ Len(succ) = 1
                           /\ IsJmpShortOrNear(last.instr)
                                 => {succ[1]} = targets
                      [] last.instr.mn = "Ret" -> succ = <<>>
                      [] OTHER ->
                           b + 1 < Len(cfg.blocks) => succ = <<b + 1>>

\* A direct branch, conditional or unconditional.
IsDirectBranch(instr) ==
    (IsCondJump(instr) \/ instr.mn = "Jmp") /\ instr.op0k = "NearBranch64"

\* Instruction index i (from 0) is the first of some block.
StartsBlock(i) ==
    \E b \in 0..(Len(cfg.blocks) - 1) : BlockIndices(b)[1] = i

\* C18: the target of every direct branch, conditional or unconditional,
\* that is the address of an instruction of the function is the first
\* instruction of a basic block.
C18_BranchTargetsStartBlocks ==
    CfgBuilt =>
        \A i, j \in 1..Len(instructions) :
            (/\ IsDirectBranch(instructions[i].instr)
             /\ NearBranchTarget(instructions[i]) = instructions[j].addr)
                => StartsBlock(j - 1)

\* C19: a control-transfer instruction (conditional branch of any
\* mnemonic, unconditional branch, call, return) is the last instruction
\* of its block: the instruction after it starts a block.
C19_TransfersEndBlocks ==
    CfgBuilt =>
        \A i \in 1..(Len(instructions) - 1) :
            IsControlTransfer(instructions[i].instr) => StartsBlock(i)

\* ------------------------------------------------------ the control path
\* The place (from 1) of the instruction at an address, or 0.
IndexAt(addr) ==
    IF \E j \in 1..Len(instructions) : instructions[j].addr = addr
    THEN CHOOSE j \in 1..Len(instructions) : instructions[j].addr = addr
    ELSE 0

\* The instructions the processor executes from place i on, at most fuel
\* of them: a direct jmp goes to its target, a ret ends the path, and so
\* does leaving the function.
RECURSIVE NativePath(_, _)
NativePath(i, fuel) ==
    IF fuel = 0 \/ i < 1 \/ i > Len(instructions) THEN <<>>
    ELSE LET info == instructions[i]
         IN  <<i>> \o
             (IF info.instr.mn = "Ret" THEN <<>>
              ELSE IF IsDirectBranch(info.instr)
                   THEN NativePath(IndexAt(NearBranchTarget(info)), fuel - 1)
                   ELSE NativePath(i + 1, fuel - 1))

\* The operations the instructions of a path are translated to.
RECURSIVE OpsOf(_)
OpsOf(path) ==
    IF path = <<>> THEN <<>>
    ELSE TranslateInstruction(instructions[Head(path)].instr, allocator).wasm
             \o OpsOf(Tail(path))

\* The operations a body executes: all up to its first Return.
RECURSIVE ExecutedOps(_)
ExecutedOps(body) ==
    IF body = <<>> THEN <<>>
    ELSE IF Head(body).op = "Return" THEN <<Head(body)>>
         ELSE <<Head(body)>> \o ExecutedOps(Tail(body))

\* The function's only control transfers are rets and direct jmps to
\* instructions of the function, and it has a jmp.
JumpsAndReturnsOnly ==
    /\ \E i \in 1..Len(instructions) : IsDirectBranch(instructions[i].instr)
    /\ \A i \in 1..Len(instructions) :
          /\ ~IsInvalid(instructions[i])
          /\ IsControlTransfer(instructions[i].instr) =>
                \/ instructions[i].instr.mn = "Ret"
                \/ /\ instructions[i].instr.mn = "Jmp"
                   /\ IsDirectBranch(instructions[i].instr)
                   /\ IndexAt(NearBranchTarget(instructions[i])) # 0

\* C20: for a function with an unconditional jump the translated body
\* executes the instructions of the native control path: what a forward
\* jump skips is not executed and what a backward jump goes back to is
\* executed again.
C20_BodyFollowsJumps ==
    (Translated /\ JumpsAndReturnsOnly) =>
        ExecutedOps(wasm_body) = OpsOf(NativePath(1, MaxSteps))

\* ------------------------------------------------------------- the moves
\* The operations instruction i (from 1) was translated to; the slots are
\* those the finished translation assigned.
EmittedFor(i) ==
    IF impl = "real"
    THEN TranslateInstruction(instructions[i].instr, allocator).wasm
    ELSE MinTranslateInstruction(instructions[i].instr, translator).wasm

\* The slot the finished translation gave a register.
SlotOf(reg) ==
    IF impl = "real" THEN GetOrAllocate(allocator, reg).slot
    ELSE GetOrAllocateRegister(translator, reg).slot

ImmediateKinds ==
    {"Immediate8", "Immediate16", "Immediate32", "Immediate64",
     "Immediate8to16", "Immediate8to32", "Immediate8to64",
     "Immediate32to64"}

\* C21: every move of an immediate to a register, whatever the width or
\* encoding of the immediate, is translated to a push of the constant and
\* a store to the destination's slot, and no move is translated to no
\* operation at all while translation reports success.
C21_MovImmediateIsConstStore ==
    (Returned /\ result.ok) =>
        \A i \in 1..Len(instructions) :
            instructions[i].instr.mn = "Mov" =>
                /\ EmittedFor(i) # <<>>
                /\ (/\ instructions[i].instr.op0k = "Register"
                    /\ instructions[i].instr.op1k \in ImmediateKinds)
                      => EmittedFor(i)
                           = <<I64Const(instructions[i].instr.imm),
                               LocalSet(SlotOf(instructions[i].instr.op0r))>>

\* ------------------------------------------------- what a comparison writes
\* The registers a comparison names as operands.
OperandRegs(instr) ==
    {instr.op0r} \cup (IF instr.op1k = "Register" THEN {instr.op1r} ELSE {})

\* C22: the operations of a cmp or a test store to the flag slot only, which
\* is the slot of neither operand: whenever they run, the slots of the
\* operand registers hold afterwards what they held before.
C22_ComparisonKeepsOperands ==
    Translated =>
        \A i \in 1..Len(instructions) :
            IsComparison(instructions[i].instr) =>
                /\ \A k \in 1..Len(EmittedFor(i)) :
                      EmittedFor(i)[k].op = "LocalSet"
                          => EmittedFor(i)[k].arg = allocator.flag_reg[1]
                /\ \A reg \in OperandRegs(instructions[i].instr) :
                      /\ SlotOf(reg) # allocator.flag_reg[1]
                      /\ \A locals \in SlotValues :
                            ExecFrom(EmittedFor(i)
                                         \o <<LocalGet(SlotOf(reg)), Return>>,
                                     1, <<>>, locals, <<>>)
                                \in {Outcome("return", locals[SlotOf(reg)]),
                                     Outcome("invalid", 0)}

\* A function with a cmp of two registers and a test has been translated,
\* and the operations of both run to their end.
C22_Witness ==
    /\ Translated
    /\ \E i, j \in 1..Len(instructions) :
          /\ instructions[i].instr = CmpRdiRax
          /\ instructions[j].instr = TestEdiEdi
          /\ \A locals \in SlotValues :
                /\ ExecFrom(EmittedFor(i) \o <<LocalGet(SlotOf("RDI")), Return>>,
                            1, <<>>, locals, <<>>).kind = "return"
                /\ ExecFrom(EmittedFor(j) \o <<LocalGet(SlotOf("EDI")), Return>>,
                            1, <<>>, locals, <<>>).kind = "return"

\* ------------------------------------------------------ slots over time
\* The allocator's next-slot counter.
NextSlot ==
    IF impl = "real" THEN allocator.next_local ELSE translator.next_local

\* The names asked for so far: registers, and the flag.
AskedRegs == {calls[i].reg : i \in {j \in 1..Len(calls) : IsRegCall(calls[j])}}
FlagAsked == \E i \in 1..Len(calls) : calls[i].reg = FlagName

\* The slot a name holds now, or -1 if it holds none.
CurrentSlot(name) ==
    IF impl = "real"
    THEN IF name = FlagName
         THEN (IF allocator.flag_reg # None THEN allocator.flag_reg[1] ELSE -1)
         ELSE (IF name \in DOMAIN allocator.reg_map
               THEN allocator.reg_map[name] ELSE -1)
    ELSE IF name \in FirstArgNames THEN 0
         ELSE IF name \in DOMAIN translator.registers
              THEN translator.registers[name] ELSE -1

\* The names asked for that hold slot s.
HoldersOf(s) ==
    {name \in AskedRegs \cup (IF FlagAsked THEN {FlagName} ELSE {}) :
        CurrentSlot(name) = s}

\* Every slot handed out still belongs to the name it was handed to, and
\* the counter has never gone down.
SlotsArePermanent ==
    /\ \A i \in 1..Len(calls) :
          /\ CurrentSlot(calls[i].reg) = calls[i].slot
          /\ calls[i].slot \in 0..(NextSlot - 1)
          /\ calls[i].after >= calls[i].before
          /\ i < Len(calls) => calls[i + 1].before = calls[i].after
    /\ calls # <<>> => NextSlot = calls[Len(calls)].after

\* C23 as claimed: the slots handed out are the range below the counter,
\* each held by exactly one register or the flag; no slot is given to
\* another name or given up, the counter never goes down, and the number
\* of slots is the number of distinct registers asked for, plus one if the
\* flag was.
C23_SlotsAreOnePerRegister ==
    /\ \A s \in 0..(NextSlot - 1) : Cardinality(HoldersOf(s)) = 1
    /\ SlotsArePermanent
    /\ NextSlot = Cardinality(AskedRegs) + (IF FlagAsked THEN 1 ELSE 0)

\* C23 as amended: as claimed for RegisterAllocator; in WasmTranslator
\* slot 0 is the parameter's, counted from the start and held by the
\* first-argument register under both its names and by nothing else, and
\* the slots from 1 on go one each to the other registers asked for.
C23_SlotsAreOnePerRegisterButParameter ==
    /\ SlotsArePermanent
    /\ IF impl = "real"
       THEN /\ \A s \in 0..(NextSlot - 1) : Cardinality(HoldersOf(s)) = 1
            /\ NextSlot = Cardinality(AskedRegs)
                             + (IF FlagAsked THEN 1 ELSE 0)
       ELSE /\ HoldersOf(0) = AskedRegs \cap FirstArgNames
            /\ \A s \in 1..(NextSlot - 1) : Cardinality(HoldersOf(s)) = 1
            /\ NextSlot = Cardinality(AskedRegs \ FirstArgNames) + 1

\* RegisterAllocator was asked for the flag and for two registers, one of
\* them twice; or WasmTranslator for a first-argument name and for another
\* register twice.
C23_Witness ==
    /\ \E i, j \in 1..Len(calls) :
          i < j /\ calls[i].reg = calls[j].reg /\ calls[i].allocated
    /\ \/ impl = "real" /\ FlagAsked /\ Cardinality(AskedRegs) >= 2
       \/ /\ impl = "minimal"
          /\ AskedRegs \cap FirstArgNames # {}
          /\ NextSlot >= 2

\* -------------------------------------------------------- declared slots
UsesLocal(o) == o.op \in {"LocalGet", "LocalSet"}

\* C24: in every module produced, every local index of a local-get or
\* local-set of the body is below the number of parameters plus the
\* number of locals declared.
C24_LocalIndicesAreDeclared ==
    (Returned /\ result.ok) =>
        \A k \in 1..Len(result.val.body) :
            UsesLocal(result.val.body[k])
                => result.val.body[k].arg < NumSlots(result.val)

\* Modules of both translators whose body uses the slot handed out last:
\* the flag slot after two registers, and local 2 of WasmTranslator.
C24_Witness ==
    /\ Returned /\ result.ok
    /\ \E k \in 1..Len(result.val.body) :
          /\ UsesLocal(result.val.body[k])
          /\ result.val.body[k].arg >= 2
          /\ IF impl = "real"
             THEN /\ allocator.flag_reg # None
                  /\ result.val.body[k].arg = allocator.next_local - 1
             ELSE result.val.body[k].arg = translator.next_local - 1

\* ---------------------------------------------- names of one register
\* The 64-bit register a name belongs to.
FullRegister(name) ==
    CASE name \in {"EAX", "RAX"} -> "RAX"
      [] name \in {"EDI", "RDI"} -> "RDI"
      [] name \in {"ECX", "RCX"} -> "RCX"
      [] OTHER -> name

HasSlot(name) == CurrentSlot(name) # -1

NamesShareSlot ==
    \A r1, r2 \in Registers :
        (HasSlot(r1) /\ HasSlot(r2) /\ FullRegister(r1) = FullRegister(r2))
            => CurrentSlot(r1) = CurrentSlot(r2)

ReturnRegisterSlots ==
    {CurrentSlot(n) : n \in {r \in Registers : FullRegister(r) = "RAX"}}
        \ {-1}

WritesReturnRegister(o) == o.op = "LocalSet" /\ o.arg \in ReturnRegisterSlots

\* The slot loaded at k for a return is the slot of the last store before k
\* to a slot of the return register, when there is one.
ReturnLoadsLastWrite(body, k) ==
    \A j \in 1..(k - 1) :
        (/\ WritesReturnRegister(body[j])
         /\ \A l \in (j + 1)..(k - 1) : ~WritesReturnRegister(body[l]))
            => body[j].arg = body[k].arg

\* C25: two names of the same machine register have the same slot, and the
\* slot a return loads is the slot written by the last instruction that
\* wrote the return register under any of its names.
C25_RegisterNamesShareSlot ==
    (Returned /\ result.ok) =>
        /\ NamesShareSlot
        /\ \A k \in 1..(Len(result.val.body) - 1) :
              (/\ result.val.body[k].op = "LocalGet"
               /\ result.val.body[k + 1].op = "Return")
                  => ReturnLoadsLastWrite(result.val.body, k)

\* ------------------------------------------------- the counter's updates
\* The counter after the callbacks of a log have run one after another.
RECURSIVE ApplyCallbacks(_, _)
ApplyCallbacks(log, c) ==
    IF log = <<>> THEN c
    ELSE ApplyCallbacks(Tail(log),
             IF Head(log) \in CallbackNames
             THEN CallbackStores(Head(log), c) ELSE c)

InCriticalSection(r) == req[r].at \in {"locked", "loaded", "stored"}

\* The requests of the log whose write, if they make one, has happened.
SettledLog ==
    IF \E r \in Clients : req[r].at \in {"locked", "loaded"}
    THEN SubSeq(lock_log, 1, Len(lock_log) - 1)
    ELSE lock_log

\* C26: however execute_callback and index requests interleave, at most one
\* of them is between taking the state mutex and dropping it, each one
\* reads the counter the requests before it left, and no update is lost:
\* the counter is what the callbacks that ran give when applied in the order
\* they took the lock, an unknown callback leaving it as it was.
C26_NoUpdateIsLost ==
    /\ \A r1, r2 \in Clients :
          (InCriticalSection(r1) /\ InCriticalSection(r2)) => r1 = r2
    /\ counter = ApplyCallbacks(SettledLog, 0)
    /\ \A r \in Clients :
          /\ (req[r].at = "done" /\ req[r].kind = UnknownName)
                => req[r].status = 404
          /\ (req[r].at = "done" /\ req[r].kind # UnknownName)
                => req[r].status = 200

\* Two increments and an unknown callback, all answered, the unknown one
\* having taken the lock between the two increments.
C26_Witness ==
    /\ \A r \in Clients : req[r].at = "done"
    /\ lock_log = <<"increment_counter", UnknownName, "increment_counter">>
    /\ counter = 2

=============================================================================
